---- MODULE Spec2Model ----
(***************************************************************************)
(* A state-machine model of bayespy/utils/linalg.py: the batched,          *)
(* broadcasting-aware Cholesky / triangular-solve helpers.                 *)
(*                                                                         *)
(* Numerical contents are symbolic.  A cell of a result array is a record  *)
(* that names which kernel produced it and from which slices:              *)
(*   [k |-> "sol", u |-> i, b |-> r]  is the solution of factor slice U[i] *)
(*   against right-hand side B[r].                                         *)
(* Shapes, index arithmetic, the iteration order, the name lookups and the *)
(* exceptions are modelled concretely.  Arrays have at least one element   *)
(* per axis (axes of size zero are outside the model), and every operand   *)
(* has its matrix / vector axes (ndim >= 2 for matrices, >= 1 for vectors),*)
(* so np.atleast_2d / np.atleast_1d return their argument.                 *)
(*                                                                         *)
(* The module namespace binds neither cholmod (line 37 is commented out)   *)
(* nor broadcasted_shape (line 39 imports nested_iterator only), so        *)
(* m_solve_triangular ends at line 170, before its loop, and chol_solve    *)
(* ends at line 66 on a dense factor and at line 115 otherwise.            *)
(* utils.nested_iterator and utils.broadcasted_shape live in utils.py and  *)
(* are modelled from their documented contracts.                           *)
(***************************************************************************)
EXTENDS Integers, Sequences, FiniteSets, TLC

VARIABLES
    names,           \* names bound in the module's global namespace
    op,              \* the public function being called ("idle" before a call)
    pc,              \* "idle" | "loop" | "done"
    arg_type,        \* type of the first operand
    rhs_sparse,      \* chol_solve: sparse.issparse(b)
    shape_u,         \* full shape of the first operand (C, U or A)
    shape_b,         \* full shape of the second operand (b or B), <<>> if none
    overwrite_b,     \* m_solve_triangular: kwargs carries overwrite_b=True
    sh,              \* shape of the broadcasted product (lines 222, 232)
    its,             \* what nested_iterator has still to yield
    idx,             \* the loop variable i: the batch index of the current pass
    ind_b,           \* the B selector list (line 165)
    out,             \* the array being filled: U in chol, V in chol_inv
    calls,           \* batch indices handed to the single-matrix kernel, in order
    failed,          \* batch indices at which cho_factor raised LinAlgError
    nwrites,         \* per cell of the result array: how many assignments covered it
    written,         \* arrays (by their name in the function) written, or handed to a
                     \* kernel that is allowed to overwrite them
    result,          \* name of the returned array, "scalar", or "none"
    exc              \* the exception that ended the call, or "none"

vars == << names, op, pc, arg_type, rhs_sparse, shape_u, shape_b,
           overwrite_b, sh, its, idx, ind_b, out, calls, failed, nwrites, written,
           result, exc >>

(***************************************************************************)
(* Bounds of the model.                                                    *)
(***************************************************************************)
MaxRank == 2      \* batch shapes have at most this many axes
MaxDim == 2       \* batch axes have sizes 1..MaxDim, and 5
MaxN == 1         \* matrices are n x n with n in 1..MaxN

\* 5 is the number of right-hand sides per matrix in the grouping example.
Dims == (1 .. MaxDim) \cup {5}

RECURSIVE ShapesOfRank(_)
ShapesOfRank(r) ==
    IF r = 0 THEN { <<>> }
    ELSE { <<d>> \o s : d \in Dims, s \in ShapesOfRank(r - 1) }

BatchShapes == UNION { ShapesOfRank(r) : r \in 0 .. MaxRank }

(***************************************************************************)
(* Python / numpy primitives used by the module.                           *)
(***************************************************************************)

\* s[:-k]
DropLast(s, k) == SubSeq(s, 1, Len(s) - k)

\* s[-k:]
TakeLast(s, k) == SubSeq(s, Len(s) - k + 1, Len(s))

\* s[j] for a negative offset j
At(s, j) == s[Len(s) + 1 + j]

Min(a, b) == IF a < b THEN a ELSE b

Max(a, b) == IF a < b THEN b ELSE a

\* The Ellipsis object, as an entry of an index list (coordinates are >= 0).
Ellipsis == -1

\* All multi-indices of an array of the given (batch) shape.
RECURSIVE Indices(_)
Indices(shape) ==
    IF shape = <<>> THEN { <<>> }
    ELSE { <<k>> \o r : k \in 0 .. (Head(shape) - 1), r \in Indices(Tail(shape)) }

\* utils.nested_iterator: every multi-index of the shape, first axis slowest.
RECURSIVE nested_iterator(_)
nested_iterator(shape) ==
    IF shape = <<>> THEN << <<>> >>
    ELSE LET rest == nested_iterator(Tail(shape))
             m == Len(rest)
         IN  [ n \in 1 .. (Head(shape) * m) |->
                 << (n - 1) \div m >> \o rest[((n - 1) % m) + 1] ]

\* Right-aligned broadcast compatibility of two batch shapes.
Compatible(a, b) ==
    \A j \in (0 - Min(Len(a), Len(b))) .. -1 :
        At(a, j) = At(b, j) \/ At(a, j) = 1 \/ At(b, j) = 1

\* utils.broadcasted_shape on compatible shapes.
broadcasted_shape(a, b) ==
    LET l == Max(Len(a), Len(b))
    IN  [ p \in 1 .. l |->
            LET j == p - l - 1
                da == IF 0 - j <= Len(a) THEN At(a, j) ELSE 1
                db == IF 0 - j <= Len(b) THEN At(b, j) ELSE 1
            IN  IF da = 1 THEN db ELSE da ]

(***************************************************************************)
(* The module namespace (lines 29-39 and the top-level defs).              *)
(***************************************************************************)
ModuleGlobals ==
    { "itertools", "np", "sp", "linalg", "special", "optimize", "sparse",
      "nested_iterator",
      "chol", "chol_solve", "chol_inv", "chol_logdet", "logdet_chol",
      "m_solve_triangular", "m_outer", "m_dot" }

\* Names bound on entry to chol_solve(U, b): its parameters.
chol_solve_params == { "U", "b" }

\* The arrays each public function receives.
InputArrays(f) ==
    CASE f = "chol" -> { "C" }
      [] f = "chol_solve" -> { "U", "b" }
      [] f = "chol_inv" -> { "U" }
      [] f = "chol_logdet" -> { "U" }
      [] f = "logdet_chol" -> { "U" }
      [] f = "m_solve_triangular" -> { "U", "B" }
      [] f = "m_outer" -> { "A", "B" }
      [] f = "m_dot" -> { "A", "b" }
      [] OTHER -> { }

\* Cells of a result array.
Uninit == [ k |-> "uninit", u |-> <<>>, b |-> <<>> ]
Eye == [ k |-> "eye", u |-> <<>>, b |-> <<>> ]
Factor(i) == [ k |-> "chol", u |-> i, b |-> <<>> ]
Inverse(i) == [ k |-> "inv", u |-> i, b |-> <<>> ]
Solution(i, r) == [ k |-> "sol", u |-> i, b |-> r ]

NoArray == << >>

\* The loop variable before the first pass.
Unbound == << -1 >>

TypeOK ==
    /\ pc \in { "idle", "loop", "done" }

(***************************************************************************)
(* Initial state: the module has been imported, no call is in progress.    *)
(***************************************************************************)
Idle ==
    /\ op = "idle"
    /\ pc = "idle"
    /\ arg_type = "none"
    /\ rhs_sparse = FALSE
    /\ shape_u = <<>>
    /\ shape_b = <<>>
    /\ overwrite_b = FALSE
    /\ sh = <<>>
    /\ its = <<>>
    /\ idx = Unbound
    /\ ind_b = <<>>
    /\ out = NoArray
    /\ calls = <<>>
    /\ failed = { }
    /\ nwrites = NoArray
    /\ written = { }
    /\ result = "none"
    /\ exc = "none"

\* The module as it is imported.
Init ==
    /\ names = ModuleGlobals
    /\ Idle

\* Ends the call with an exception: nothing is returned.
Raise(e) ==
    /\ pc' = "done"
    /\ exc' = e
    /\ result' = "none"

\* Ends the call returning the named value.
Return(r) ==
    /\ pc' = "done"
    /\ exc' = "none"
    /\ result' = r

(***************************************************************************)
(* chol(C), lines 42-57.                                                   *)
(***************************************************************************)

\* Line 51: the batch axes iterated over, np.shape(U)[:-2].
chol_batch(shape) == DropLast(shape, 2)

\* A handler that swallows the LinAlgError and goes on with the next slice.
chol_except_pass == "pass"

\* Lines 54-56: the handler of LinAlgError re-raises as a plain Exception.
chol_except == "raise"

\* "U = cho_factor(C[i])[0]": rebinding the name instead of storing the slice.
chol_assign_rebind(U, i) == U

\* Line 53: U[i] = cho_factor(C[i])[0].
chol_assign(U, i) == [ U EXCEPT ![i] = Factor(i) ]

chol_call ==
    /\ pc = "idle"
    /\ \E t \in { "ndarray", "sparse" }, bs \in BatchShapes, n \in 1 .. MaxN :
        /\ op' = "chol"
        /\ arg_type' = t
        /\ shape_u' = bs \o << n, n >>
        /\ IF t = "sparse"
           THEN \* line 45: cholmod.cholesky(C)
                /\ IF "cholmod" \in names THEN Return("Factor") ELSE Raise("NameError")
                /\ UNCHANGED << its, out, nwrites >>
           ELSE \* lines 49-51: C = np.atleast_2d(C); U = np.empty(np.shape(C))
                /\ out' = [ i \in Indices(DropLast(bs \o << n, n >>, 2)) |-> Uninit ]
                /\ nwrites' = [ i \in Indices(DropLast(bs \o << n, n >>, 2)) |-> 0 ]
                /\ its' = nested_iterator(chol_batch(bs \o << n, n >>))
                /\ pc' = "loop"
                /\ UNCHANGED << exc, result >>
    /\ UNCHANGED << idx, failed, names, rhs_sparse, shape_b, overwrite_b, sh,
                    ind_b, calls, written >>

\* Line 53: what linalg.cho_factor(C[i]) does with one slice.  It returns the
\* factor, raises LinAlgError on a slice that is not positive definite, or
\* (check_finite is left at its default) raises ValueError on a slice that
\* holds NaN or inf.
cho_factor_outcomes == { "ok", "LinAlgError", "ValueError" }

\* One pass of the loop body, lines 52-56.  The handler at line 54 catches
\* LinAlgError only; any other exception of the pass propagates unchanged.
chol_step ==
    /\ pc = "loop"
    /\ op = "chol"
    /\ its # <<>>
    /\ LET i == Head(its)
       IN  \E r \in cho_factor_outcomes :
             /\ idx' = i
             /\ calls' = Append(calls, i)
             /\ failed' = IF r = "LinAlgError" THEN failed \cup { i } ELSE failed
             /\ IF r = "ok"
                THEN /\ out' = chol_assign(out, i)
                     /\ nwrites' = [ nwrites EXCEPT ![i] = @ + 1 ]
                     /\ written' = written \cup { "U" }
                     /\ its' = Tail(its)
                     /\ UNCHANGED << pc, exc, result >>
                ELSE IF r = "ValueError"
                THEN /\ Raise("ValueError")
                     /\ UNCHANGED << out, nwrites, written, its >>
                ELSE IF chol_except = "raise"
                THEN /\ Raise("Exception: Matrix not positive definite")
                     /\ UNCHANGED << out, nwrites, written, its >>
                ELSE /\ its' = Tail(its)
                     /\ UNCHANGED << out, nwrites, written, pc, exc, result >>
    /\ UNCHANGED << names, op, arg_type, rhs_sparse, shape_u,
                    shape_b, overwrite_b, sh, ind_b >>

\* Line 57.
chol_return ==
    /\ pc = "loop"
    /\ op = "chol"
    /\ its = <<>>
    /\ Return("U")
    /\ UNCHANGED << idx, failed, names, op, arg_type, rhs_sparse, shape_u,
                    shape_b, overwrite_b, sh, its, ind_b, out, calls, nwrites, written >>

(***************************************************************************)
(* chol_inv(U), lines 122-138.                                             *)
(***************************************************************************)

\* Solving in place in the caller's factor instead of the identity buffer.
chol_inv_target_U == "U"

\* Lines 127-129: the array cho_solve(..., overwrite_b=True) may overwrite,
\* and that the result is stored into.
chol_inv_target == "V"

chol_inv_call ==
    /\ pc = "idle"
    /\ \E t \in { "ndarray", "Factor", "other" }, bs \in BatchShapes, n \in 1 .. MaxN :
        /\ op' = "chol_inv"
        /\ arg_type' = t
        /\ shape_u' = bs \o << n, n >>
        /\ IF t = "ndarray"
           THEN \* line 125: V = np.tile(np.identity(n), batch + (1, 1))
                /\ out' = [ i \in Indices(DropLast(bs \o << n, n >>, 2)) |-> Eye ]
                /\ nwrites' = [ i \in Indices(DropLast(bs \o << n, n >>, 2)) |-> 0 ]
                /\ its' = nested_iterator(DropLast(bs \o << n, n >>, 2))
                /\ pc' = "loop"
                /\ UNCHANGED << exc, result >>
           ELSE \* line 132: isinstance(U, cholmod.Factor)
                /\ IF "cholmod" \notin names THEN Raise("NameError")
                   ELSE IF t = "Factor" THEN Raise("NotImplementedError")
                   ELSE Raise("ValueError")
                /\ UNCHANGED << its, out, nwrites >>
    /\ UNCHANGED << idx, failed, names, rhs_sparse, shape_b, overwrite_b, sh,
                    ind_b, calls, written >>

\* Lines 127-129: what linalg.cho_solve((U[i], False), V[i], overwrite_b=True)
\* does with one slice.  It returns the solution, or (check_finite is left at
\* its default) raises ValueError on a factor slice that holds NaN or inf,
\* before anything is written.
cho_solve_outcomes == { "ok", "ValueError" }

\* One pass of the loop body, lines 126-129; there is no exception handler.
chol_inv_step ==
    /\ pc = "loop"
    /\ op = "chol_inv"
    /\ its # <<>>
    /\ LET i == Head(its)
       IN  \E r \in cho_solve_outcomes :
             /\ idx' = i
             /\ calls' = Append(calls, i)
             /\ IF r = "ok"
                THEN /\ out' = [ out EXCEPT ![i] = Inverse(i) ]
                     /\ nwrites' = [ nwrites EXCEPT ![i] = @ + 1 ]
                     /\ written' = written \cup { chol_inv_target }
                     /\ its' = Tail(its)
                     /\ UNCHANGED << pc, exc, result >>
                ELSE /\ Raise("ValueError")
                     /\ UNCHANGED << out, nwrites, written, its >>
    /\ UNCHANGED << failed, names, op, arg_type, rhs_sparse, shape_u,
                    shape_b, overwrite_b, sh, ind_b >>

\* Line 131.
chol_inv_return ==
    /\ pc = "loop"
    /\ op = "chol_inv"
    /\ its = <<>>
    /\ Return("V")
    /\ UNCHANGED << idx, failed, names, op, arg_type, rhs_sparse, shape_u,
                    shape_b, overwrite_b, sh, its, ind_b, out, calls, nwrites, written >>

(***************************************************************************)
(* The batched solves: m_solve_triangular(U, B, **kwargs), lines 155-212,  *)
(* and chol_solve(U, b), lines 59-120.                                     *)
(***************************************************************************)

\* Line 160: sh_b = B.shape[:-1].
sh_b_of(shapeB) == DropLast(shapeB, 1)

\* Lines 159-170.  The shapes and the selector ind_b = [Ellipsis] * l_b are
\* computed; line 170 then looks broadcasted_shape up in the module
\* namespace, where it is not bound.  Lines 172-212 are not reached.
solve_enter(shapeU, shapeB) ==
    /\ ind_b' = [ p \in 1 .. Len(sh_b_of(shapeB)) |-> Ellipsis ]
    /\ "broadcasted_shape" \notin names
    /\ Raise("NameError")
    /\ UNCHANGED << sh, its, out, nwrites >>

m_solve_triangular_call ==
    /\ pc = "idle"
    /\ \E bu \in BatchShapes, bb \in BatchShapes, n \in 1 .. MaxN, ow \in BOOLEAN :
        /\ op' = "m_solve_triangular"
        /\ arg_type' = "ndarray"
        /\ shape_u' = bu \o << n, n >>
        /\ shape_b' = bb \o << n >>
        /\ overwrite_b' = ow
        /\ solve_enter(bu \o << n, n >>, bb \o << n >>)
    /\ UNCHANGED << idx, failed, names, rhs_sparse, calls, written >>

chol_solve_call ==
    /\ pc = "idle"
    /\ \E t \in { "ndarray", "Factor", "other" }, sp \in BOOLEAN,
          bu \in BatchShapes, bb \in BatchShapes, n \in 1 .. MaxN :
        /\ op' = "chol_solve"
        /\ arg_type' = t
        /\ rhs_sparse' = sp
        /\ shape_u' = bu \o << n, n >>
        /\ shape_b' = bb \o << n >>
        /\ IF t = "ndarray"
           THEN \* lines 61-62 rebind b to a new dense array; line 66 reads B
                IF "B" \notin chol_solve_params
                THEN /\ Raise("UnboundLocalError")
                     /\ UNCHANGED << sh, its, ind_b, out, nwrites >>
                \* line 77 reads out
                ELSE IF "out" \notin (chol_solve_params \cup names)
                THEN /\ Raise("NameError")
                     /\ UNCHANGED << sh, its, ind_b, out, nwrites >>
                ELSE solve_enter(bu \o << n, n >>, bb \o << n >>)
           ELSE \* line 115: isinstance(U, cholmod.Factor)
                /\ IF "cholmod" \notin names THEN Raise("NameError")
                   ELSE IF t = "Factor" THEN Return("x")
                   ELSE Raise("ValueError")
                /\ UNCHANGED << sh, its, ind_b, out, nwrites >>
    /\ UNCHANGED << idx, failed, names, overwrite_b, calls, written >>

(***************************************************************************)
(* chol_logdet(U), lines 140-146, and logdet_chol(U), lines 148-153.       *)
(***************************************************************************)
chol_logdet_call ==
    /\ pc = "idle"
    /\ \E t \in { "ndarray", "Factor", "other" }, bs \in BatchShapes, n \in 1 .. MaxN :
        /\ op' = "chol_logdet"
        /\ arg_type' = t
        /\ shape_u' = bs \o << n, n >>
        /\ IF t = "ndarray"
           THEN \* line 142: np.diag accepts 1-d and 2-d input only
                IF Len(bs \o << n, n >>) = 2 THEN Return("scalar") ELSE Raise("ValueError")
           ELSE \* line 143
                IF "cholmod" \notin names THEN Raise("NameError")
                ELSE IF t = "Factor" THEN Return("scalar")
                ELSE Raise("ValueError")
    /\ UNCHANGED << idx, failed, names, rhs_sparse, shape_b, overwrite_b, sh, its,
                    ind_b, out, calls, nwrites, written >>

logdet_chol_call ==
    /\ pc = "idle"
    /\ \E t \in { "ndarray", "Factor", "other" }, bs \in BatchShapes, n \in 1 .. MaxN :
        /\ op' = "logdet_chol"
        /\ arg_type' = t
        /\ shape_u' = bs \o << n, n >>
        /\ IF t = "ndarray"
           THEN \* line 151
                Return("logdet")
           ELSE \* line 152; the function has no else branch and would return None
                IF "cholmod" \notin names THEN Raise("NameError")
                ELSE IF t = "Factor" THEN Return("scalar")
                ELSE Return("None")
    /\ UNCHANGED << idx, failed, names, rhs_sparse, shape_b, overwrite_b, sh, its,
                    ind_b, out, calls, nwrites, written >>

(***************************************************************************)
(* m_outer(A, B), lines 218-222, and m_dot(A, b), lines 224-232.           *)
(***************************************************************************)
m_outer_call ==
    /\ pc = "idle"
    /\ \E ba \in BatchShapes, bb \in BatchShapes, n \in 1 .. MaxN, m \in 1 .. MaxN :
        /\ op' = "m_outer"
        /\ arg_type' = "ndarray"
        /\ shape_u' = ba \o << n >>
        /\ shape_b' = bb \o << m >>
        /\ \* line 222: A[..., np.newaxis] * B[..., np.newaxis, :]
           IF Compatible(ba, bb)
           THEN /\ sh' = broadcasted_shape(ba, bb) \o << n, m >>
                /\ Return("product")
           ELSE /\ sh' = sh
                /\ Raise("ValueError")
    /\ UNCHANGED << idx, failed, names, rhs_sparse, overwrite_b, its, ind_b, out,
                    calls, nwrites, written >>

m_dot_call ==
    /\ pc = "idle"
    /\ \E ba \in BatchShapes, bb \in BatchShapes, n \in 1 .. MaxN, m \in 1 .. MaxN :
        /\ op' = "m_dot"
        /\ arg_type' = "ndarray"
        /\ shape_u' = ba \o << m, n >>
        /\ shape_b' = bb \o << n >>
        /\ \* line 232: np.einsum('...ik,...k->...i', A, b)
           IF Compatible(ba, bb)
           THEN /\ sh' = broadcasted_shape(ba, bb) \o << m >>
                /\ Return("product")
           ELSE /\ sh' = sh
                /\ Raise("ValueError")
    /\ UNCHANGED << idx, failed, names, rhs_sparse, overwrite_b, its, ind_b, out,
                    calls, nwrites, written >>

Next ==
    \/ chol_call
    \/ chol_step
    \/ chol_return
    \/ chol_inv_call
    \/ chol_inv_step
    \/ chol_inv_return
    \/ chol_logdet_call
    \/ logdet_chol_call
    \/ m_outer_call
    \/ m_dot_call
    \/ chol_solve_call
    \/ m_solve_triangular_call

Spec == Init /\ [][Next]_vars

(***************************************************************************)
(* Properties.                                                             *)
(***************************************************************************)
Done == pc = "done"

Returned == pc = "done" /\ exc = "none"

su_now == DropLast(shape_u, 2)

sb_now == DropLast(shape_b, 1)

\* The slice of an operand of batch shape s that broadcasting pairs with
\* output cell o.
Project(o, s) ==
    [ p \in 1 .. Len(s) |-> IF s[p] = 1 THEN 0 ELSE o[Len(o) - Len(s) + p] ]

\* The output the broadcasting rules ask for: cell o holds the solution of
\* U[o projected on U] against B[o projected on B].
OutputCorrect ==
    /\ Compatible(su_now, sb_now)
    /\ sh = broadcasted_shape(su_now, sb_now)
    /\ DOMAIN out = Indices(sh)
    /\ \A o \in Indices(sh) :
         out[o] = Solution(Project(o, su_now), Project(o, sb_now))

IsPrefix(s, t) == Len(s) <= Len(t) /\ s = SubSeq(t, 1, Len(s))

\* C1 (as claimed): when an axis of U of size n > 1 meets an axis of B of size
\* 1, the batched solve returns, and cell k of the result is the solution of
\* U[k] against the shared B.  Stated for m_solve_triangular (chol_solve
\* shares the algorithm; its dense branch is the subject of C4).
C1_BroadcastLaw ==
    ( Done /\ op = "m_solve_triangular"
      /\ Compatible(su_now, sb_now)
      /\ \E j \in (0 - Min(Len(su_now), Len(sb_now))) .. -1 :
            At(su_now, j) > 1 /\ At(sb_now, j) = 1 )
    => ( Returned /\ result = "out" /\ OutputCorrect )

\* C2 (as claimed): for U of batch shape (2,) and B of batch shape (2, 5) the
\* call succeeds with output shape (2, 5, N), cell [k, r] being the solution
\* of U[k] against B[k, r], one solve per matrix.  Stated for
\* m_solve_triangular.
C2_GroupingAsClaimed ==
    ( Done /\ op = "m_solve_triangular" /\ su_now = << 2 >> /\ sb_now = << 2, 5 >> )
    => ( /\ Returned
         /\ sh \o TakeLast(shape_b, 1) = << 2, 5 >> \o TakeLast(shape_b, 1)
         /\ DOMAIN out = Indices(<< 2, 5 >>)
         /\ \A k \in 0 .. 1, r \in 0 .. 4 :
              out[<< k, r >>] = Solution(<< k >>, << k, r >>)
         /\ calls = << << 0 >>, << 1 >> >> )

\* C3 (as claimed): when U has more batch axes than B, the call returns the
\* broadcasted output in which every cell holds the solution from its own U
\* slice, and no cell is assigned twice (a result is never replaced by that
\* of another U index).  Stated for m_solve_triangular.
C3_RanksDiffer ==
    ( Done /\ op = "m_solve_triangular" /\ Len(su_now) > Len(sb_now) /\ Compatible(su_now, sb_now) )
    => ( /\ Returned
         /\ OutputCorrect
         /\ \A o \in DOMAIN nwrites : nwrites[o] = 1 )

\* C4 (as claimed): chol_solve on a dense factor and a dense right-hand side
\* completes without error and returns the solutions.
C4_CholSolveCompletes ==
    ( Done /\ op = "chol_solve" /\ arg_type = "ndarray" /\ ~ rhs_sparse
      /\ Compatible(su_now, sb_now) )
    => ( Returned /\ OutputCorrect )

\* C5: once cho_factor has found a slice of a dense batch not positive
\* definite (LinAlgError), chol has ended with the "not positive definite"
\* exception and no return value; the slices were visited in row-major
\* order, the failing one last, and every slice before it (and none after
\* it) was factorized.  A slice with NaN or inf entries is another case: it
\* ends the call with cho_factor's ValueError, which line 54 does not catch.
C5_CholAborts ==
    ( op = "chol" /\ arg_type = "ndarray" )
    => ( /\ IsPrefix(calls, nested_iterator(DropLast(shape_u, 2)))
         /\ ( failed # { }
              => ( /\ Done
                   /\ exc = "Exception: Matrix not positive definite"
                   /\ result = "none"
                   /\ failed = { calls[Len(calls)] }
                   /\ \A i \in DOMAIN out :
                        ( out[i] = Factor(i)
                          <=> \E n \in 1 .. (Len(calls) - 1) : calls[n] = i ) ) ) )

C5_Witness ==
    /\ op = "chol"
    /\ Done
    /\ failed # { }
    /\ Len(calls) >= 2
    /\ Len(calls) < Len(nested_iterator(DropLast(shape_u, 2)))

\* C6 (as claimed): chol_inv on a sparse Cholesky factor fails with
\* NotImplementedError and returns nothing.
C6_SparseInverseNotImplemented ==
    ( Done /\ op = "chol_inv" /\ arg_type = "Factor" )
    => ( exc = "NotImplementedError" /\ result = "none" )

\* C8: no call writes into one of its input arrays, and a returned array is
\* not one of the inputs.
C8_InputsUntouched ==
    /\ written \cap InputArrays(op) = { }
    /\ result \notin InputArrays(op)

C8_Witness ==
    /\ Returned
    /\ op = "chol_inv"
    /\ written = { "V" }
    /\ Len(calls) >= 2

\* C9: when chol returns, the factor array has C's batch shape and every
\* batch index was assigned exactly once with the factor of its own slice; no
\* cell still holds the contents np.empty left there.
C9_CholFillsEverySlice ==
    ( Returned /\ op = "chol" /\ arg_type = "ndarray" )
    => ( /\ result = "U"
         /\ DOMAIN out = Indices(DropLast(shape_u, 2))
         /\ \A i \in Indices(DropLast(shape_u, 2)) :
              out[i] = Factor(i) /\ nwrites[i] = 1 )

C9_Witness ==
    /\ Returned
    /\ op = "chol"
    /\ arg_type = "ndarray"
    /\ Len(DropLast(shape_u, 2)) = 2
    /\ Len(calls) >= 4

====
